---- MODULE Spec2Model ----
(***************************************************************************)
(* Model of streamlit_dashboard.py: a CSV scatter plotter that runs either *)
(* as a Streamlit page or as a headless command writing a PNG.             *)
(*                                                                         *)
(* A table (pandas DataFrame) is a sequence of columns, each a record of   *)
(* its name and its inferred dtype.  The filesystem maps a path (a         *)
(* sequence of components relative to the working directory) to what is    *)
(* there.  pyplot's registry of live figures is a set of figure numbers.   *)
(***************************************************************************)
EXTENDS Naturals, Sequences, FiniteSets, TLC

VARIABLES
    HAS_STREAMLIT, \* module global _HAS_STREAMLIT, fixed at import
    table,         \* the table held by data.csv / the uploaded file / the df under test
    fs,            \* filesystem: path -> "absent" | "dir" | "csv" | "png" | "empty"
    figs,          \* numbers of the figures pyplot keeps alive in the process
    args,          \* the arguments the call under study is made with
    last           \* what the last call did: its result and the steps it took

vars == <<HAS_STREAMLIT, table, fs, figs, args, last>>

-----------------------------------------------------------------------------
(* Bounds *)

MaxCols == 3    \* columns of a generated table
MaxDepth == 2   \* directory levels above an output file
MaxFigs == 2    \* live figures in one process

-----------------------------------------------------------------------------
(* Values *)

None == "<None>"                 \* Python's None for an Optional[str]
NoPath == <<"<None>">>           \* Python's None for an Optional[Path]
NoFigure == [num |-> 0, title |-> "", x |-> None, y |-> None]
NoError == [type |-> "", text |-> "", named |-> <<>>]

\* dtypes of the generated tables; the sample adds float64
Dtypes == {"int64", "object", "bool"}

\* numpy's "number" kind, what select_dtypes(include=["number"]) keeps
NumberDtypes == {"int64", "float64"}

ColName(i) == CASE i = 1 -> "x" [] i = 2 -> "y" [] i = 3 -> "z" [] i = 4 -> "cat"
                [] OTHER -> "c" \o ToString(i)

_sample_df ==
    << [name |-> "x", dtype |-> "int64"],
       [name |-> "y", dtype |-> "int64"],
       [name |-> "z", dtype |-> "float64"],
       [name |-> "cat", dtype |-> "object"] >>

TablesOfLen(k) ==
    { [i \in 1..k |-> [name |-> ColName(i), dtype |-> d[i]]] : d \in [1..k -> Dtypes] }

Tables == {_sample_df} \cup UNION { TablesOfLen(k) : k \in 1..MaxCols }

Columns(df) == { df[i].name : i \in 1..Len(df) }

\* column names a caller may ask for: "x" is in every table, "z" only in wide ones
AxisNames == {"x", "z"}

Start == [op |-> "start"]

-----------------------------------------------------------------------------
(* get_numeric_columns *)

RECURSIVE select_dtypes_number(_)
select_dtypes_number(df) ==
    IF df = <<>> THEN <<>>
    ELSE IF Head(df).dtype \in NumberDtypes
         THEN <<Head(df).name>> \o select_dtypes_number(Tail(df))
         ELSE select_dtypes_number(Tail(df))

get_numeric_columns_no_raise(df) ==
    [ok |-> TRUE, cols |-> select_dtypes_number(df), err |-> NoError]

get_numeric_columns_keeps_bool(df) ==
    LET keep(c) == c.dtype \in NumberDtypes \cup {"bool"}
        kept == SelectSeq(df, keep)
        numeric_cols == [i \in 1..Len(kept) |-> kept[i].name]
    IN  IF numeric_cols = <<>>
        THEN [ok |-> FALSE, cols |-> <<>>,
              err |-> [type |-> "ValueError",
                       text |-> "No numeric columns found in the dataset.",
                       named |-> <<>>]]
        ELSE [ok |-> TRUE, cols |-> numeric_cols, err |-> NoError]

get_numeric_columns(df) ==
    LET numeric_cols == select_dtypes_number(df)
    IN  IF numeric_cols = <<>>
        THEN [ok |-> FALSE, cols |-> <<>>,
              err |-> [type |-> "ValueError",
                       text |-> "No numeric columns found in the dataset.",
                       named |-> <<>>]]
        ELSE [ok |-> TRUE, cols |-> numeric_cols, err |-> NoError]

-----------------------------------------------------------------------------
(* scatter_figure *)

Max(S) == CHOOSE m \in S : \A n \in S : n <= m

\* plt.subplots(): pyplot numbers a new figure one above the live ones
subplots(live) == IF live = {} THEN 1 ELSE Max(live) + 1

scatter_figure_and(df, x, y, live) ==
    IF x \notin Columns(df) /\ y \notin Columns(df)
    THEN [ok |-> FALSE, fig |-> NoFigure, figs |-> live,
          err |-> [type |-> "KeyError", text |-> "Columns not in DataFrame: ",
                   named |-> <<x, y>>]]
    ELSE LET num == subplots(live)
         IN  [ok |-> TRUE,
              fig |-> [num |-> num, title |-> "Scatter: " \o x \o " vs " \o y,
                       x |-> x, y |-> y],
              figs |-> live \cup {num},
              err |-> NoError]

\* the KeyError's message is f"Columns not in DataFrame: {x=}, {y=}": its text,
\* then the values it interpolates, in order
scatter_figure(df, x, y, live) ==
    IF x \notin Columns(df) \/ y \notin Columns(df)
    THEN [ok |-> FALSE, fig |-> NoFigure, figs |-> live,
          err |-> [type |-> "KeyError", text |-> "Columns not in DataFrame: ",
                   named |-> <<x, y>>]]
    ELSE LET num == subplots(live)
         IN  [ok |-> TRUE,
              fig |-> [num |-> num, title |-> "Scatter: " \o x \o " vs " \o y,
                       x |-> x, y |-> y],
              figs |-> live \cup {num},
              err |-> NoError]

\* plt.close(fig)
close(live, fig) == live \ {fig.num}

-----------------------------------------------------------------------------
(* Paths and the filesystem *)

Cwd == <<>>
Dir(k) == [i \in 1..k |-> "d"]
OutPath(k) == Dir(k) \o <<"plot.png">>
DefaultOut == OutPath(0)                     \* Path("plot.png")
DataCsv == <<"data.csv">>
MissingCsv == <<"missing.csv">>

OutPaths == { OutPath(k) : k \in 0..MaxDepth }
TestOut == <<"out.png">>                     \* Path(td) / "out.png", below td
AllPaths ==
    {Cwd, DataCsv, MissingCsv, TestOut} \cup OutPaths \cup { Dir(k) : k \in 1..MaxDepth }

parent(p) == IF p = Cwd THEN Cwd ELSE SubSeq(p, 1, Len(p) - 1)

exists(f, p) == f[p] # "absent"

\* only data.csv in the working directory
PristineFs ==
    [p \in AllPaths |-> IF p = Cwd THEN "dir" ELSE IF p = DataCsv THEN "csv" ELSE "absent"]

\* PristineFs with something already at q, below directories
FsWith(q, kind) ==
    [p \in AllPaths |->
        IF p = q THEN kind
        ELSE IF p # Cwd /\ Len(p) < Len(q) /\ p = SubSeq(q, 1, Len(p)) THEN "dir"
        ELSE PristineFs[p]]

InitialFs ==
    {PristineFs}
      \cup { FsWith(q, k) : q \in OutPaths, k \in {"png", "empty", "dir"} }
      \cup { FsWith(Dir(j), k) : j \in 1..MaxDepth, k \in {"dir", "empty"} }

-----------------------------------------------------------------------------
(* What the library calls of run_cli do to the filesystem *)

OsError(type) == [type |-> type, text |-> "", named |-> <<>>]

\* pd.read_csv(path) of a path that exists
_read_csv(f, tbl, path) ==
    CASE f[path] = "csv"   -> [ok |-> TRUE, df |-> tbl, err |-> NoError]
      [] f[path] = "png"   -> [ok |-> FALSE, df |-> <<>>, err |-> OsError("UnicodeDecodeError")]
      [] f[path] = "empty" -> [ok |-> FALSE, df |-> <<>>, err |-> OsError("EmptyDataError")]
      [] f[path] = "dir"   -> [ok |-> FALSE, df |-> <<>>, err |-> OsError("IsADirectoryError")]
      [] OTHER             -> [ok |-> FALSE, df |-> <<>>, err |-> OsError("FileNotFoundError")]

\* Path.mkdir(parents=True, exist_ok=True): os.mkdir, the parents first when they
\* are missing; an existing directory is accepted, an existing file is not
RECURSIVE mkdir(_, _)
mkdir(f, p) ==
    IF f[p] = "dir" THEN [ok |-> TRUE, fs |-> f, err |-> NoError]
    ELSE IF f[p] # "absent" THEN [ok |-> FALSE, fs |-> f, err |-> OsError("FileExistsError")]
    ELSE IF f[parent(p)] = "dir"
         THEN [ok |-> TRUE, fs |-> [f EXCEPT ![p] = "dir"], err |-> NoError]
    ELSE IF f[parent(p)] # "absent"
         THEN [ok |-> FALSE, fs |-> f, err |-> OsError("NotADirectoryError")]
    ELSE LET up == mkdir(f, parent(p))
         IN  IF up.ok
             THEN [ok |-> TRUE, fs |-> [up.fs EXCEPT ![p] = "dir"], err |-> NoError]
             ELSE up

savefig_exclusive(f, path) ==
    IF f[path] # "absent"
    THEN [ok |-> FALSE, fs |-> f, err |-> OsError("FileExistsError")]
    ELSE [ok |-> TRUE, fs |-> [f EXCEPT ![path] = "png"], err |-> NoError]

\* fig.savefig(out_path, format="png", dpi=144): opens the path for writing,
\* truncating what is there, and writes the image
savefig(f, path) ==
    IF f[path] = "dir"
    THEN [ok |-> FALSE, fs |-> f, err |-> OsError("IsADirectoryError")]
    ELSE IF f[parent(path)] # "dir"
    THEN [ok |-> FALSE, fs |-> f, err |-> OsError("FileNotFoundError")]
    ELSE [ok |-> TRUE, fs |-> [f EXCEPT ![path] = "png"], err |-> NoError]

-----------------------------------------------------------------------------
(* run_cli *)

load_no_check(f, tbl, input_csv) ==
    IF input_csv = NoPath
    THEN [ok |-> TRUE, df |-> _sample_df, err |-> NoError, trace |-> <<"_sample_df">>]
    ELSE LET r == _read_csv(f, tbl, input_csv)
         IN  [ok |-> r.ok, df |-> r.df, err |-> r.err, trace |-> <<"_read_csv">>]

\* lines 115-120: the sample, or the file once it is known to exist
load(f, tbl, input_csv) ==
    IF input_csv = NoPath
    THEN [ok |-> TRUE, df |-> _sample_df, err |-> NoError, trace |-> <<"_sample_df">>]
    ELSE IF ~exists(f, input_csv)
    THEN [ok |-> FALSE, df |-> <<>>,
          err |-> [type |-> "FileNotFoundError", text |-> "CSV not found: ",
                   named |-> input_csv],
          trace |-> <<"exists">>]
    ELSE LET r == _read_csv(f, tbl, input_csv)
         IN  [ok |-> r.ok, df |-> r.df, err |-> r.err, trace |-> <<"exists", "_read_csv">>]

\* lines 123-125: x, y = numeric_columns[:2] when either is None
choose_axes(numeric_columns, x, y) ==
    IF x = None \/ y = None
    THEN IF Len(numeric_columns) >= 2
         THEN [ok |-> TRUE, x |-> numeric_columns[1], y |-> numeric_columns[2],
               err |-> NoError]
         ELSE [ok |-> FALSE, x |-> x, y |-> y,
               err |-> [type |-> "ValueError",
                        text |-> "not enough values to unpack (expected 2, got 1)",
                        named |-> <<>>]]
    ELSE [ok |-> TRUE, x |-> x, y |-> y, err |-> NoError]

\* the result of a call that has not got anywhere yet
CliStart(f, live) ==
    [op |-> "run_cli",
     fs0 |-> f, figs0 |-> live,
     again |-> FALSE,
     status |-> "raised", ret |-> NoPath, err |-> NoError, trace |-> <<>>,
     df |-> <<>>, numeric |-> <<>>, rendered |-> <<>>, fig |-> NoFigure,
     fs |-> f, figs |-> live]

run_cli(f, tbl, live, input_csv, x, y, out_path) ==
    LET s0 == CliStart(f, live)
        ld == load(f, tbl, input_csv)
        s1 == [s0 EXCEPT !.trace = ld.trace, !.df = ld.df, !.err = ld.err]
    IN  IF ~ld.ok THEN s1 ELSE
    LET nc == get_numeric_columns(ld.df)
        s2 == [s1 EXCEPT !.trace = @ \o <<"get_numeric_columns">>,
                         !.numeric = nc.cols, !.err = nc.err]
    IN  IF ~nc.ok THEN s2 ELSE
    LET ax == choose_axes(nc.cols, x, y)
    IN  IF ~ax.ok THEN [s2 EXCEPT !.err = ax.err] ELSE
    LET sf == scatter_figure(ld.df, ax.x, ax.y, live)
        s3 == [s2 EXCEPT !.trace = @ \o <<"scatter_figure">>,
                         !.rendered = <<ax.x, ax.y>>,
                         !.fig = sf.fig, !.figs = sf.figs, !.err = sf.err]
    IN  IF ~sf.ok THEN s3 ELSE
    LET md == mkdir(f, parent(out_path))
        s4 == [s3 EXCEPT !.trace = @ \o <<"mkdir">>, !.fs = md.fs, !.err = md.err]
    IN  IF ~md.ok THEN s4 ELSE
    LET sv == savefig(md.fs, out_path)
        s5 == [s4 EXCEPT !.trace = @ \o <<"savefig">>, !.fs = sv.fs, !.err = sv.err]
    IN  IF ~sv.ok THEN s5 ELSE
        [s5 EXCEPT !.trace = @ \o <<"close">>, !.figs = close(sf.figs, sf.fig),
                   !.status = "returned", !.ret = out_path]

-----------------------------------------------------------------------------
(* The headless call, made and made again with the same arguments on a       *)
(* filesystem that persists                                                  *)

CliInputs == {NoPath, DataCsv, MissingCsv}
CliAxes == {None} \cup AxisNames
CliOuts == OutPaths \cup {DataCsv}

InitCli ==
    /\ HAS_STREAMLIT = FALSE
    /\ table \in Tables
    /\ fs \in InitialFs
    /\ figs = {}
    /\ args \in [input_csv : CliInputs, x : CliAxes, y : CliAxes, out_path : CliOuts]
    /\ last = Start

\* again: the call before this one was the same call, and it returned
RunCli ==
    /\ Cardinality(figs) < MaxFigs
    /\ LET r == run_cli(fs, table, figs, args.input_csv, args.x, args.y, args.out_path)
       IN  /\ last' = [r EXCEPT !.again = (last.op = "run_cli" /\ last.status = "returned")]
           /\ fs' = r.fs
           /\ figs' = r.figs
    /\ UNCHANGED <<HAS_STREAMLIT, table, args>>

NextCli == RunCli

SpecCli == InitCli /\ [][NextCli]_vars

-----------------------------------------------------------------------------
(* Properties of run_cli, under SpecCli *)

Ancestors(p) == { SubSeq(p, 1, k) : k \in 0..(Len(p) - 1) }

CliCalled == last.op = "run_cli"
CliReturned == CliCalled /\ last.status = "returned"
CliRaised == CliCalled /\ last.status = "raised"

\* C2: a call of run_cli that returns has returned the out_path it was given, has
\* left a non-empty file there below directories, and has closed its figure; made
\* again with the same arguments and the input file as it was, it returns again.
RunCliWritesOutPath ==
    /\ CliReturned =>
         /\ last.ret = args.out_path
         /\ fs[args.out_path] = "png"
         /\ \A q \in Ancestors(args.out_path) : fs[q] = "dir"
         /\ last.fig # NoFigure
         /\ last.fig.num \notin figs
         /\ figs = last.figs0
    /\ (CliCalled /\ last.again /\ args.input_csv # args.out_path) => CliReturned

\* a second run that overwrote the first run's file below created directories
RunCliOverwrites ==
    /\ CliReturned
    /\ last.again
    /\ args.out_path = OutPath(MaxDepth)
    /\ last.fs0[args.out_path] = "png"

\* C3: once classification has succeeded, the renderer is given the first two
\* numeric columns when x or y is unset, and (x, y) when both are set.
RunCliAxes ==
    (CliCalled /\ last.numeric # <<>>) =>
        IF args.x = None \/ args.y = None
        THEN /\ Len(last.numeric) >= 2
             /\ last.rendered = <<last.numeric[1], last.numeric[2]>>
        ELSE last.rendered = <<args.x, args.y>>

ListedFailure(err) ==
    \/ err.type = "FileNotFoundError" /\ err.text = "CSV not found: "
    \/ err.type = "ValueError" /\ err.text = "No numeric columns found in the dataset."
    \/ err.type = "KeyError"

\* what the claim sets aside: an input that does not parse, an output that cannot
\* be written
UnparseableOrUnwritable(err) ==
    err.type \in {"UnicodeDecodeError", "EmptyDataError", "IsADirectoryError",
                  "FileExistsError", "NotADirectoryError"}

\* C4: run_cli raises only for a missing input, a table without numeric columns
\* or a chosen column that is not in the table.
RunCliFailsOnlyAsListed ==
    CliRaised => ListedFailure(last.err) \/ UnparseableOrUnwritable(last.err)

\* C7: a call of run_cli that raises has left no figure open and has changed
\* nothing on disk.
RunCliNoPartialFailure ==
    CliRaised => figs = last.figs0 /\ fs = last.fs0

\* C8: with an input path that does not exist, run_cli raises "CSV not found"
\* having only tested the path: nothing parsed, classified, rendered or written.
RunCliMissingInput ==
    (CliCalled /\ args.input_csv # NoPath /\ ~exists(last.fs0, args.input_csv)) =>
        /\ last.status = "raised"
        /\ last.err.type = "FileNotFoundError"
        /\ last.err.text = "CSV not found: "
        /\ last.err.named = args.input_csv
        /\ last.trace = <<"exists">>
        /\ last.rendered = <<>>
        /\ last.fig = NoFigure
        /\ figs = last.figs0
        /\ fs = last.fs0

RunCliMissingInputSeen ==
    /\ CliRaised
    /\ args.input_csv = MissingCsv
    /\ args.x = "z" /\ args.y = "x"
    /\ args.out_path = OutPath(MaxDepth)
    /\ fs[OutPath(MaxDepth)] = "absent"

-----------------------------------------------------------------------------
(* The classifier and the renderer called on a table, as the unit tests call  *)
(* them: a figure returned is closed or left open                            *)

CoreAxes == {"x", "y", "z"}

InitCore ==
    /\ HAS_STREAMLIT = FALSE
    /\ table \in Tables
    /\ fs = PristineFs
    /\ figs = {}
    /\ args \in [x : CoreAxes, y : CoreAxes]
    /\ last = Start

Classify ==
    /\ LET r == get_numeric_columns(table)
       IN  last' = [op |-> "get_numeric_columns", ok |-> r.ok, cols |-> r.cols,
                    err |-> r.err]
    /\ UNCHANGED <<HAS_STREAMLIT, table, fs, figs, args>>

Render ==
    /\ Cardinality(figs) < MaxFigs
    /\ LET r == scatter_figure(table, args.x, args.y, figs)
       IN  /\ last' = [op |-> "scatter_figure", figs0 |-> figs, ok |-> r.ok,
                       fig |-> r.fig, err |-> r.err]
           /\ figs' = r.figs
    /\ UNCHANGED <<HAS_STREAMLIT, table, fs, args>>

\* plt.close(fig) of the figure just returned
Close ==
    /\ last.op = "scatter_figure"
    /\ last.ok
    /\ figs' = close(figs, last.fig)
    /\ last' = [op |-> "close", fig |-> last.fig]
    /\ UNCHANGED <<HAS_STREAMLIT, table, fs, args>>

NextCore == Classify \/ Render \/ Close

SpecCore == InitCore /\ [][NextCore]_vars

-----------------------------------------------------------------------------
(* Properties of get_numeric_columns and scatter_figure, under SpecCore *)

\* the columns of integer or floating-point type, by position
NumericAt(df) == { i \in 1..Len(df) : df[i].dtype \in {"int64", "float64"} }

Pos(df, name) == CHOOSE i \in 1..Len(df) : df[i].name = name

\* C5: get_numeric_columns returns the table's numeric columns, each once, in the
\* table's order, and never an empty list: with no numeric column it raises
\* "No numeric columns found".  For the sample table it returns x, y, z.
ClassifyReturnsNumericInOrder ==
    last.op = "get_numeric_columns" =>
        /\ IF NumericAt(table) = {}
           THEN /\ ~last.ok
                /\ last.cols = <<>>
                /\ last.err.type = "ValueError"
                /\ last.err.text = "No numeric columns found in the dataset."
           ELSE /\ last.ok
                /\ last.cols # <<>>
                /\ Len(last.cols) = Cardinality(NumericAt(table))
                /\ \A i \in 1..Len(last.cols) : last.cols[i] \in Columns(table)
                /\ \A i \in 1..Len(last.cols) : Pos(table, last.cols[i]) \in NumericAt(table)
                /\ \A i, j \in 1..Len(last.cols) :
                      i < j => Pos(table, last.cols[i]) < Pos(table, last.cols[j])
        /\ table = _sample_df => last.cols = <<"x", "y", "z">>

\* numeric columns picked out from between columns that are not
ClassifySkipsColumns ==
    /\ last.op = "get_numeric_columns"
    /\ Len(table) = 3
    /\ table[1].dtype = "bool"
    /\ table[2].dtype = "int64"
    /\ table[3].dtype = "int64"
    /\ last.cols = <<"y", "z">>

Missing(df, x, y) == { n \in {x, y} : n \notin Columns(df) }

Named(err) == { err.named[i] : i \in 1..Len(err.named) }

RenderReturnsOrCreatesNothing ==
    /\ last.ok <=> (args.x \in Columns(table) /\ args.y \in Columns(table))
    /\ last.ok =>
         /\ last.fig.num \notin last.figs0
         /\ last.fig.num \in figs
         /\ last.fig.title = "Scatter: " \o args.x \o " vs " \o args.y
         /\ last.err = NoError
    /\ ~last.ok =>
         /\ last.err.type = "KeyError"
         /\ last.err.text = "Columns not in DataFrame: "
         /\ last.fig = NoFigure
         /\ figs = last.figs0

\* C6, as claimed: scatter_figure returns a fresh figure titled
\* "Scatter: {x} vs {y}" exactly when both names are columns; otherwise it
\* raises a KeyError that names the missing names, those and no others, and
\* creates no figure.
RenderNamesTheMissing ==
    last.op = "scatter_figure" =>
        /\ RenderReturnsOrCreatesNothing
        /\ ~last.ok => Named(last.err) = Missing(table, args.x, args.y)

\* C6, amended: as above, but the KeyError names both requested names, x then y,
\* whichever of them is missing.
RenderNamesBothRequested ==
    last.op = "scatter_figure" =>
        /\ RenderReturnsOrCreatesNothing
        /\ ~last.ok =>
             /\ last.err.named = <<args.x, args.y>>
             /\ Missing(table, args.x, args.y) # {}
             /\ Missing(table, args.x, args.y) \subseteq Named(last.err)

\* a render refused for one missing name while a figure is open
RenderRefusedForOneName ==
    /\ last.op = "scatter_figure"
    /\ ~last.ok
    /\ args.x \in Columns(table)
    /\ args.y \notin Columns(table)

-----------------------------------------------------------------------------
(* run_streamlit_app: one pass of the page *)

\* st.selectbox(options=..., index=...): the option the user picked, the one at
\* index when the widget was left alone (choice 0), None without options
selectbox(options, index, choice) ==
    IF options = <<>> THEN None
    ELSE IF choice \in 1..Len(options) THEN options[choice]
    ELSE options[index + 1]

y_options_unfiltered(numeric_columns, x_axis) == numeric_columns

\* line 95: [c for c in numeric_columns if c != x_axis] or numeric_columns
y_options(numeric_columns, x_axis) ==
    LET differs(c) == c # x_axis
        rest == SelectSeq(numeric_columns, differs)
    IN  IF rest = <<>> THEN numeric_columns ELSE rest

AppStart(live, uploaded, pressed, xi, yi) ==
    [op |-> "run_streamlit_app",
     uploaded |-> uploaded, pressed |-> pressed, xi |-> xi, yi |-> yi,
     figs0 |-> live,
     status |-> "raised", err |-> NoError, trace |-> <<>>, warning |-> "",
     df |-> <<>>, numeric |-> <<>>, options |-> <<>>,
     x_axis |-> None, y_axis |-> None,
     fig |-> NoFigure, file_name |-> "", figs |-> live]

\* uploaded: "none", "csv" (a file holding tbl) or "bad" (a file that does not
\* parse); pressed: the "Use sample data" button; xi, yi: what the user picked
\* in the two select boxes
run_streamlit_app(has, tbl, live, uploaded, pressed, xi, yi) ==
    LET s0 == AppStart(live, uploaded, pressed, xi, yi)
    IN  IF ~has THEN [s0 EXCEPT !.err = OsError("AssertionError")] ELSE
    LET s1 == [s0 EXCEPT !.trace = <<"title", "caption", "file_uploader">>]
    IN  IF uploaded = "none" /\ ~pressed
        THEN [s1 EXCEPT !.trace = @ \o <<"info", "button">>, !.status = "returned"]
        ELSE
    IF uploaded = "bad"
        THEN [s1 EXCEPT !.trace = @ \o <<"read_csv">>, !.err = OsError("ParserError")]
        ELSE
    LET df == IF uploaded = "none" THEN _sample_df ELSE tbl
        got == IF uploaded = "none" THEN <<"info", "button", "_sample_df">>
               ELSE <<"read_csv">>
        nc == get_numeric_columns(df)
        s2 == [s1 EXCEPT !.trace = @ \o got
                                     \o <<"subheader", "dataframe", "get_numeric_columns">>,
                         !.df = df, !.numeric = nc.cols]
    IN  IF ~nc.ok
        THEN [s2 EXCEPT !.trace = @ \o <<"warning">>, !.warning = nc.err.text,
                        !.status = "returned"]
        ELSE
    LET x_axis == selectbox(nc.cols, 0, xi)
        options == y_options(nc.cols, x_axis)
        y_axis == selectbox(options, 0, yi)
        sf == scatter_figure(df, x_axis, y_axis, live)
        s3 == [s2 EXCEPT !.trace = @ \o <<"columns", "selectbox", "selectbox",
                                           "scatter_figure">>,
                         !.options = options, !.x_axis = x_axis, !.y_axis = y_axis,
                         !.fig = sf.fig, !.figs = sf.figs, !.err = sf.err]
    IN  IF ~sf.ok THEN s3 ELSE
        [s3 EXCEPT !.trace = @ \o <<"pyplot", "savefig", "download_button">>,
                   !.file_name = "scatter_" \o x_axis \o "_vs_" \o y_axis \o ".png",
                   !.status = "returned"]

Uploads == {"none", "csv", "bad"}
Choices == 0..(MaxCols + 1)

InitApp ==
    /\ HAS_STREAMLIT = TRUE
    /\ table \in Tables
    /\ fs = PristineFs
    /\ figs = {}
    /\ args = Start
    /\ last = Start

\* a pass; the select boxes offer only what is in their lists
RunStreamlitApp(uploaded, pressed, xi, yi) ==
    /\ Cardinality(figs) < MaxFigs
    /\ LET r == run_streamlit_app(HAS_STREAMLIT, table, figs, uploaded, pressed, xi, yi)
       IN  /\ xi <= Len(r.numeric)
           /\ yi <= Len(r.options)
           /\ uploaded # "none" => ~pressed
           /\ last' = r
           /\ figs' = r.figs
    /\ UNCHANGED <<HAS_STREAMLIT, table, fs, args>>

NextApp ==
    \E uploaded \in Uploads, pressed \in BOOLEAN, xi \in Choices, yi \in Choices :
        RunStreamlitApp(uploaded, pressed, xi, yi)

SpecApp == InitApp /\ [][NextApp]_vars

-----------------------------------------------------------------------------
(* Properties of run_streamlit_app, under SpecApp *)

AppPassed == last.op = "run_streamlit_app"

Count(seq, step) == Cardinality({ i \in 1..Len(seq) : seq[i] = step })

Before(seq, a, b) ==
    \E i, j \in 1..Len(seq) : i < j /\ seq[i] = a /\ seq[j] = b

\* C9: a pass calls the renderer at most once, and only after data was
\* obtained and classified with success; without upload or sample it ends with
\* no preview and no plot; when classification fails it shows the message as a
\* warning and ends with no render and no download.
AppRendersOnlyClassifiedData ==
    AppPassed =>
        /\ Count(last.trace, "scatter_figure") <= 1
        /\ Count(last.trace, "scatter_figure") = 1 =>
             /\ last.uploaded = "csv" \/ last.pressed
             /\ NumericAt(last.df) # {}
             /\ last.numeric # <<>>
             /\ Before(last.trace, "dataframe", "scatter_figure")
             /\ Before(last.trace, "get_numeric_columns", "scatter_figure")
        /\ (last.uploaded = "none" /\ ~last.pressed) =>
             /\ last.status = "returned"
             /\ Count(last.trace, "dataframe") = 0
             /\ Count(last.trace, "scatter_figure") = 0
             /\ Count(last.trace, "pyplot") = 0
             /\ figs = last.figs0
        /\ (last.df # <<>> /\ NumericAt(last.df) = {}) =>
             /\ last.status = "returned"
             /\ last.trace[Len(last.trace)] = "warning"
             /\ last.warning = "No numeric columns found in the dataset."
             /\ Count(last.trace, "scatter_figure") = 0
             /\ Count(last.trace, "download_button") = 0
             /\ figs = last.figs0

\* an uploaded table without numeric columns, warned about
AppWarned ==
    /\ AppPassed
    /\ last.uploaded = "csv"
    /\ last.df = table
    /\ NumericAt(table) = {}
    /\ last.warning # ""

AtX(seq, c) == CHOOSE i \in 1..Len(seq) : seq[i] = c

\* C10: the Y options are the numeric columns without the chosen X, in order,
\* and the chosen Y differs from X; with a single numeric column they are the
\* full list and Y equals X.  The Y list is never empty; a box left alone gives
\* the first option.
AppYOptionsExcludeX ==
    (AppPassed /\ last.numeric # <<>>) =>
        LET n == last.numeric
            o == last.options
        IN  /\ last.x_axis = IF last.xi = 0 THEN n[1] ELSE n[last.xi]
            /\ o # <<>>
            /\ last.y_axis = IF last.yi = 0 THEN o[1] ELSE o[last.yi]
            /\ IF Len(n) = 1
               THEN o = n /\ last.y_axis = last.x_axis
               ELSE /\ Len(o) = Len(n) - 1
                    /\ \A i \in 1..Len(o) : o[i] # last.x_axis
                    /\ \A i \in 1..Len(n) :
                          n[i] # last.x_axis => \E j \in 1..Len(o) : o[j] = n[i]
                    /\ \A i, j \in 1..Len(o) : i < j => AtX(n, o[i]) < AtX(n, o[j])
                    /\ last.y_axis # last.x_axis

\* the user picked the second numeric column as X and the last remaining one as Y
AppPickedMiddleX ==
    /\ AppPassed
    /\ Len(last.numeric) = 3
    /\ last.xi = 2
    /\ last.yi = 2
    /\ last.y_axis = last.numeric[3]
    /\ last.status = "returned"

-----------------------------------------------------------------------------
(* main *)

\* tempfile.TemporaryDirectory(): an empty directory
TemporaryDirectory == [p \in AllPaths |-> IF p = Cwd THEN "dir" ELSE "absent"]

\* st_size > 0
NonEmptyFile(f, p) == f[p] \in {"png", "csv"}

\* test_cli_writes_png: written.exists() and written.stat().st_size > 0
test_cli_writes_png(written) ==
    /\ written.status = "returned"
    /\ exists(written.fs, written.ret)
    /\ NonEmptyFile(written.fs, written.ret)

\* test_numeric_detection: assertListEqual(cols, ["x", "y", "z"])
test_numeric_detection(cols) == cols.ok /\ cols.cols = <<"x", "y", "z">>

\* test_scatter_returns_figure: a Figure came back
test_scatter_returns_figure(fig) == fig.ok

TestsResult(written, cols, fig) ==
    LET wasSuccessful ==
            /\ test_cli_writes_png(written)
            /\ test_numeric_detection(cols)
            /\ test_scatter_returns_figure(fig)
    IN  [op |-> "tests",
         wasSuccessful |-> wasSuccessful,
         exit |-> IF wasSuccessful THEN 0 ELSE 1,
         figs |-> IF fig.ok THEN close(fig.figs, fig.fig) ELSE fig.figs]

\* _run_tests_and_exit: the three tests of TestDataTool, then
\* SystemExit(0 if result.wasSuccessful() else 1)
_run_tests_and_exit(tbl, live) ==
    TestsResult(run_cli(TemporaryDirectory, tbl, live, NoPath, None, None, TestOut),
                get_numeric_columns(_sample_df),
                scatter_figure(_sample_df, "x", "y", live))

\* bool(v) of an Optional[str] and of an Optional[Path]
truthy(v) == v # None /\ v # ""
truthy_path(p) == p # NoPath

\* line 189: any([args.csv, args.x, args.y]) or args.out != Path("plot.png")
cli_flag_provided(argv) ==
    \/ truthy_path(argv.csv) \/ truthy(argv.x) \/ truthy(argv.y)
    \/ argv.out # DefaultOut

MainStart(f, live) ==
    [op |-> "main", ran |-> <<>>, exit |-> 0, printed |-> <<>>,
     cli |-> Start, app |-> Start, tests |-> Start, fs |-> f, figs |-> live]

\* exit status of the process: 1 when the call raised
ExitOf(r) == IF r.status = "returned" THEN 0 ELSE 1

\* lines 183-198: which branch of main is taken
dispatch(has, argv) ==
    IF argv.test THEN "tests"
    ELSE IF has
    THEN IF cli_flag_provided(argv) THEN "run_cli" ELSE "run_streamlit_app"
    ELSE "run_cli without streamlit"

\* lines 190-191, 197-198: run_cli, then print where the plot was saved
headless(m, out) ==
    [m EXCEPT !.ran = @ \o <<"run_cli">>, !.cli = out,
              !.printed = IF out.status = "returned" THEN @ \o <<"Saved: ">> ELSE @,
              !.exit = ExitOf(out), !.fs = out.fs, !.figs = out.figs]

tested(m, t) ==
    [m EXCEPT !.ran = <<"tests">>,
              !.tests = [op |-> "tests", wasSuccessful |-> t.wasSuccessful],
              !.exit = t.exit, !.figs = t.figs]

paged(m, page) ==
    [m EXCEPT !.ran = <<"run_streamlit_app">>, !.app = page,
              !.exit = ExitOf(page), !.figs = page.figs]

main(has, f, tbl, live, argv, uploaded, pressed, xi, yi) ==
    CASE dispatch(has, argv) = "tests" ->
           tested(MainStart(f, live), _run_tests_and_exit(tbl, live))
      [] dispatch(has, argv) = "run_streamlit_app" ->
           paged(MainStart(f, live),
                 run_streamlit_app(has, tbl, live, uploaded, pressed, xi, yi))
      [] OTHER ->
           headless([MainStart(f, live) EXCEPT
                        !.printed = IF has THEN <<>> ELSE <<"streamlit not installed">>],
                    run_cli(f, tbl, live, argv.csv, argv.x, argv.y, argv.out))

\* --x and --y: left out, given empty, given a column name
MainAxes == {None, "", "x"}
MainOuts == {DefaultOut, OutPath(1)}

InitMain ==
    /\ HAS_STREAMLIT \in BOOLEAN
    /\ table \in Tables
    /\ fs = PristineFs
    /\ figs = {}
    /\ args \in [test : BOOLEAN, csv : CliInputs, x : MainAxes, y : MainAxes,
                 out : MainOuts]
    /\ last = Start

MainDone(r, uploaded, pressed, xi, yi) ==
    /\ r.app # Start =>
         /\ xi <= Len(r.app.numeric)
         /\ yi <= Len(r.app.options)
         /\ uploaded # "none" => ~pressed
    /\ last' = r
    /\ fs' = r.fs

\* one process: parse the arguments, run, exit; the figures die with it
Main(uploaded, pressed, xi, yi) ==
    /\ dispatch(HAS_STREAMLIT, args) # "run_streamlit_app" =>
           (uploaded = "none" /\ ~pressed /\ xi = 0 /\ yi = 0)
    /\ MainDone(main(HAS_STREAMLIT, fs, table, {}, args, uploaded, pressed, xi, yi),
                uploaded, pressed, xi, yi)
    /\ UNCHANGED <<HAS_STREAMLIT, table, figs, args>>

NextMain ==
    \E uploaded \in Uploads, pressed \in BOOLEAN, xi \in Choices, yi \in Choices :
        Main(uploaded, pressed, xi, yi)

SpecMain == InitMain /\ [][NextMain]_vars

-----------------------------------------------------------------------------
(* Properties of main, under SpecMain *)

\* one of --csv, --x, --y, --out was given a value other than its default
NonDefaultGiven(argv) ==
    argv.csv # NoPath \/ argv.x # None \/ argv.y # None \/ argv.out # DefaultOut

\* C1: main runs exactly one of the self-tests, run_cli and run_streamlit_app:
\* the tests with --test, exiting 0 or 1 as they passed; else run_cli when
\* streamlit is missing or an argument was given a non-default value; else the
\* page.  The page is never run without streamlit.
MainRunsOneAction ==
    last.op = "main" =>
        /\ Len(last.ran) = 1
        /\ args.test =>
             /\ last.ran = <<"tests">>
             /\ last.exit = IF last.tests.wasSuccessful THEN 0 ELSE 1
        /\ (~args.test /\ (~HAS_STREAMLIT \/ NonDefaultGiven(args))) =>
             last.ran = <<"run_cli">>
        /\ (~args.test /\ HAS_STREAMLIT /\ ~NonDefaultGiven(args)) =>
             last.ran = <<"run_streamlit_app">>
        /\ ~HAS_STREAMLIT => last.ran # <<"run_streamlit_app">>

====
